---- MODULE Spec2Model ----
(***************************************************************************)
(* A model of the pdfimage2latex extension (src/src/extension.ts):         *)
(*   - the watch registries and the debounced watcher (Spec; SpecLtx with  *)
(*     a LaTeX document whose name does not end in .tex),                  *)
(*   - the stability detector checkFileStable (SpecStable),                *)
(*   - the replication reaction handleLogChange / syncPdfFiles (SpecSync;  *)
(*     SpecReaction runs it under its watcher, with fairness),             *)
(*   - the document splicer updateLatexDocument (SpecSplice),              *)
(*   - the comparison reaction handlePdfDifference (SpecDiff).             *)
(* Times are in milliseconds.                                              *)
(***************************************************************************)
EXTENDS Integers, Sequences, FiniteSets, TLC

VARIABLES
    active,           \* activate() has run
    anchorWatchers,   \* Map<string, FileSystemWatcher>: path -> watcher id
    logSyncWatchers,  \* Map<string, FileSystemWatcher>: path -> watcher id
    watchers,         \* every watcher ever created, by id (1..Len)
    probe,            \* the frame of a running checkFileStable call
    sync,             \* the frame of a running handleLogChange / syncPdfFiles
    splice,           \* the frame of a running updateLatexDocument
    diff              \* the frame of a running handlePdfDifference

vars == <<active, anchorWatchers, logSyncWatchers, watchers, probe, sync, splice, diff>>

----------------------------------------------------------------------------
(* Bounds of the model *)

\* watchers created in one run (ids are never reused)
MaxWatchers == 2
\* reaction executions started, over all watchers
MaxRuns == 2
\* notifications counted as dropped at one time, over all watchers
MaxDrops == 2
\* the largest checkCount of a checkFileStable call
MaxCheckCount == 4
\* file sizes are 0..MaxSize, modification times 0..MaxMtime
MaxSize == 1
MaxMtime == 1
\* the longest document text, in characters
MaxDocLen == 7
\* the longest artifact list
MaxImages == 2

----------------------------------------------------------------------------
(* Configuration parameters: const config *)

maxRetries == 3
cooldown == 1000
logCheckDelay == 500

\* the granularity of the model's clock: time passes in steps of Tick
Tick == cooldown \div 2

----------------------------------------------------------------------------
(* Paths and the derived path conventions *)

MkPath(stem, ext) == [stem |-> stem, ext |-> ext]

\* the /i flag of the path regular expressions
LowerExt(ext) ==
    CASE ext = "TEX" -> "tex"
      [] ext = "PDF" -> "pdf"
      [] OTHER -> ext

getLogFilePath(texPath) ==
    IF LowerExt(texPath.ext) = "tex" THEN MkPath(texPath.stem, "log") ELSE texPath

getMainPdfPath(texPath) ==
    IF LowerExt(texPath.ext) = "tex" THEN MkPath(texPath.stem, "pdf") ELSE texPath

getDrawPdfPath(path) ==
    IF LowerExt(path.ext) \in {"tex", "pdf"}
    THEN MkPath(path.stem \o "_draw", "pdf")
    ELSE path

\* the documents the editor reports: document.uri.fsPath and document.languageId
Docs ==
    { [path |-> MkPath("a", "tex"), languageId |-> "latex"],
      [path |-> MkPath("a", "TEX"), languageId |-> "latex"],
      [path |-> MkPath("n", "md"),  languageId |-> "markdown"] }

\* the same with a LaTeX document whose name does not end in .tex (the editor
\* gives the language latex to .ltx files too)
DocsWithLtx == Docs \cup {[path |-> MkPath("a", "ltx"), languageId |-> "latex"]}

----------------------------------------------------------------------------
(* The debounced watcher: createSmartPdfWatcher *)

\* sinceEnd of a watcher none of whose reactions has ended
NoTime == 0 - 1

\* let isProcessing = false; const watcher = createFileSystemWatcher(pdfPath)
\* callback is "anchor" (handlePdfDifference) or "log" (handleLogChange).
\* inflight counts the handler executions that are awaiting callback();
\* timers holds the time left of every pending setTimeout of the handler.
\* History: started counts the reaction executions begun, dropped the
\* notifications dropped since the reaction began or, after it, since it ended,
\* sinceEnd is the time since the last reaction ended (at most cooldown),
\* lastOutcome how it ended.
createSmartPdfWatcher(pdfPath, callback) ==
    [ path |-> pdfPath,
      callback |-> callback,
      isProcessing |-> FALSE,
      disposed |-> FALSE,
      inflight |-> 0,
      timers |-> <<>>,
      started |-> 0,
      dropped |-> 0,
      sinceEnd |-> NoTime,
      lastOutcome |-> "none" ]

\* if (isProcessing) return;
handlerDropsMutant(w) == FALSE
handlerDrops(w) == w.isProcessing

\* finally { setTimeout(..., cooldown) }: runs when callback() resolved and
\* when it rejected
armsCooldownMutant(outcome) == outcome = "ok"
armsCooldown(outcome) == outcome \in {"ok", "fail"}

\* setTimeout(() => isProcessing = false, cooldown): the time left of the timer
\* armed when the reaction ends
cooldownDelayMutant == logCheckDelay
cooldownDelay == cooldown

handlerEnterMutant(w) ==
    IF handlerDrops(w)
    THEN [w EXCEPT !.dropped = @ + 1]
    ELSE [w EXCEPT !.inflight = @ + 1,
                   !.started = @ + 1,
                   !.dropped = 0]

\* handler, up to the await: the notification is dropped or the reaction starts
handlerEnter(w) ==
    IF handlerDrops(w)
    THEN [w EXCEPT !.dropped = @ + 1]
    ELSE [w EXCEPT !.isProcessing = TRUE,
                   !.inflight = @ + 1,
                   !.started = @ + 1,
                   !.dropped = 0]

\* handler, after the await: callback() has settled with outcome
handlerLeave(w, outcome) ==
    [w EXCEPT !.inflight = @ - 1,
              !.dropped = 0,
              !.timers = IF armsCooldown(outcome) THEN Append(@, cooldownDelay) ELSE @,
              !.sinceEnd = 0,
              !.lastOutcome = outcome]

\* the timer callback: () => isProcessing = false
timerFires(w) ==
    [w EXCEPT !.isProcessing = FALSE, !.timers = Tail(@)]

\* Tick of time passing for one watcher
Elapse(t) == IF t > Tick THEN t - Tick ELSE 0
timePasses(w) ==
    [w EXCEPT !.timers = [i \in DOMAIN @ |-> Elapse(@[i])],
              !.sinceEnd = IF @ = NoTime THEN NoTime
                           ELSE IF @ + Tick >= cooldown THEN cooldown
                           ELSE @ + Tick]

----------------------------------------------------------------------------
(* The registries: setupAnchorSystem, setupPdfSyncSystem *)

\* The state the registry functions work on
Reg(aw, lw, ws) == [anchorWatchers |-> aw, logSyncWatchers |-> lw, watchers |-> ws]

MapSet(m, k, v) == [x \in DOMAIN m \cup {k} |-> IF x = k THEN v ELSE m[x]]
MapDelete(m, k) == [x \in DOMAIN m \ {k} |-> m[x]]

setupAnchorSystemMutant(r, document, hasAnchor, scriptOk) ==
    LET drawPdf == getDrawPdfPath(document.path)
        existing == drawPdf \in DOMAIN r.anchorWatchers
    IN  IF ~hasAnchor /\ existing
        THEN [r EXCEPT !.watchers[r.anchorWatchers[drawPdf]].disposed = TRUE]
        ELSE IF ~hasAnchor THEN r
        ELSE IF ~scriptOk THEN r
        ELSE IF ~existing
        THEN [r EXCEPT !.watchers = Append(@, createSmartPdfWatcher(drawPdf, "anchor")),
                       !.anchorWatchers = MapSet(@, drawPdf, Len(r.watchers) + 1)]
        ELSE r

\* document.getText().includes('%ANCHOR%') is hasAnchor; scriptOk is
\* fs.existsSync(scriptPath) in getPythonScriptPath
setupAnchorSystem(r, document, hasAnchor, scriptOk) ==
    LET drawPdf == getDrawPdfPath(document.path)
        existing == drawPdf \in DOMAIN r.anchorWatchers
    IN  IF ~hasAnchor /\ existing
        THEN [r EXCEPT !.watchers[r.anchorWatchers[drawPdf]].disposed = TRUE,
                       !.anchorWatchers = MapDelete(@, drawPdf)]
        ELSE IF ~hasAnchor THEN r
        ELSE IF ~scriptOk THEN r
        ELSE IF ~existing
        THEN [r EXCEPT !.watchers = Append(@, createSmartPdfWatcher(drawPdf, "anchor")),
                       !.anchorWatchers = MapSet(@, drawPdf, Len(r.watchers) + 1)]
        ELSE r

setupPdfSyncSystem(r, document) ==
    LET logPath == getLogFilePath(document.path)
    IN  IF logPath \notin DOMAIN r.logSyncWatchers
        THEN [r EXCEPT !.watchers = Append(@, createSmartPdfWatcher(logPath, "log")),
                       !.logSyncWatchers = MapSet(@, logPath, Len(r.watchers) + 1)]
        ELSE r

\* the watcher ids a registry holds
Values(m) == {m[k] : k \in DOMAIN m}

deactivateMutant(r) ==
    [r EXCEPT !.watchers = [id \in DOMAIN @ |->
        IF id \in Values(r.anchorWatchers)
        THEN [@[id] EXCEPT !.disposed = TRUE]
        ELSE @[id]]]

\* deactivate(): forEach(w => w.dispose()) over both maps, which keep their
\* entries; dispose() of a disposed watcher does nothing
deactivate(r) ==
    [r EXCEPT !.watchers = [id \in DOMAIN @ |->
        IF id \in Values(r.anchorWatchers) \cup Values(r.logSyncWatchers)
        THEN [@[id] EXCEPT !.disposed = TRUE]
        ELSE @[id]]]

\* activate: textDocuments.forEach over the open documents, in order
RECURSIVE activateDocs(_, _, _, _)
activateDocs(r, open, anchored, scriptOk) ==
    IF open = <<>> THEN r
    ELSE LET doc == Head(open)
             r1 == IF doc.languageId = "latex"
                   THEN LET ra == IF doc \in anchored
                                  THEN setupAnchorSystem(r, doc, TRUE, scriptOk)
                                  ELSE r
                        IN  setupPdfSyncSystem(ra, doc)
                   ELSE r
         IN  activateDocs(r1, Tail(open), anchored, scriptOk)

----------------------------------------------------------------------------
(* The watch system: the editor's events, the file notifications, the timers *)

SubSeqs(S) ==
    LET perms(n) == {q \in [1..n -> S] : \A i, j \in 1..n : i # j => q[i] # q[j]}
    IN  UNION {perms(n) : n \in 0..Cardinality(S)}

Install(r) ==
    /\ Len(r.watchers) <= MaxWatchers
    /\ anchorWatchers' = r.anchorWatchers
    /\ logSyncWatchers' = r.logSyncWatchers
    /\ watchers' = r.watchers

CurrentReg == Reg(anchorWatchers, logSyncWatchers, watchers)

\* activate(context): the handlers are subscribed and the open documents set up
ActivateOf(D) ==
    /\ ~active
    /\ active' = TRUE
    /\ \E open \in SubSeqs(D), scriptOk \in BOOLEAN :
         \E anchored \in SUBSET {open[i] : i \in DOMAIN open} :
            Install(activateDocs(CurrentReg, open, anchored, scriptOk))
    /\ UNCHANGED <<probe, sync, splice, diff>>

Activate == ActivateOf(Docs)

\* onDidChangeTextDocument(event)
OnDidChangeTextDocumentOf(D) ==
    /\ active
    /\ \E doc \in D :
         IF doc.languageId = "latex"
         THEN \E hasAnchor \in BOOLEAN, scriptOk \in BOOLEAN :
                 Install(setupAnchorSystem(CurrentReg, doc, hasAnchor, scriptOk))
         ELSE UNCHANGED <<anchorWatchers, logSyncWatchers, watchers>>
    /\ UNCHANGED <<active, probe, sync, splice, diff>>

OnDidChangeTextDocument == OnDidChangeTextDocumentOf(Docs)

\* onDidSaveTextDocument(doc)
OnDidSaveTextDocumentOf(D) ==
    /\ active
    /\ \E doc \in D :
         IF doc.languageId = "latex"
         THEN Install(setupPdfSyncSystem(CurrentReg, doc))
         ELSE UNCHANGED <<anchorWatchers, logSyncWatchers, watchers>>
    /\ UNCHANGED <<active, probe, sync, splice, diff>>

OnDidSaveTextDocument == OnDidSaveTextDocumentOf(Docs)

\* deactivate()
Deactivate ==
    /\ active
    /\ Install(deactivate(CurrentReg))
    /\ UNCHANGED <<active, probe, sync, splice, diff>>

\* the sum of a history count over the first n watchers
RECURSIVE Total(_, _, _)
Total(ws, field, n) == IF n = 0 THEN 0 ELSE Total(ws, field, n - 1) + ws[n][field]

\* watcher.onDidChange(handler) / watcher.onDidCreate(handler): one notification
\* of a live watcher runs the handler up to its await
Notify ==
    /\ \E id \in DOMAIN watchers :
         /\ ~watchers[id].disposed
         /\ IF handlerDrops(watchers[id])
            THEN Total(watchers, "dropped", Len(watchers)) < MaxDrops
            ELSE Total(watchers, "started", Len(watchers)) < MaxRuns
         /\ watchers' = [watchers EXCEPT ![id] = handlerEnter(@)]
    /\ UNCHANGED <<active, anchorWatchers, logSyncWatchers, probe, sync, splice, diff>>

\* callback() settles (handlePdfDifference or handleLogChange has run to its
\* end, or failed) and the handler resumes after its await
ReactionSettles ==
    /\ \E id \in DOMAIN watchers, outcome \in {"ok", "fail"} :
         /\ watchers[id].inflight > 0
         /\ watchers' = [watchers EXCEPT ![id] = handlerLeave(@, outcome)]
    /\ UNCHANGED <<active, anchorWatchers, logSyncWatchers, probe, sync, splice, diff>>

\* a cooldown timer of a watcher expires
TimerFires ==
    /\ \E id \in DOMAIN watchers :
         /\ watchers[id].timers # <<>>
         /\ Head(watchers[id].timers) = 0
         /\ watchers' = [watchers EXCEPT ![id] = timerFires(@)]
    /\ UNCHANGED <<active, anchorWatchers, logSyncWatchers, probe, sync, splice, diff>>

\* Tick milliseconds pass
TimePasses ==
    /\ watchers' = [id \in DOMAIN watchers |-> timePasses(watchers[id])]
    /\ UNCHANGED <<active, anchorWatchers, logSyncWatchers, probe, sync, splice, diff>>

Idle == [pc |-> "idle"]

Init ==
    /\ active = FALSE
    /\ anchorWatchers = << >>
    /\ logSyncWatchers = << >>
    /\ watchers = << >>
    /\ probe = Idle
    /\ sync = Idle
    /\ splice = Idle
    /\ diff = Idle

Next ==
    \/ Activate
    \/ OnDidChangeTextDocument
    \/ OnDidSaveTextDocument
    \/ Deactivate
    \/ Notify
    \/ ReactionSettles
    \/ TimerFires
    \/ TimePasses

Spec == Init /\ [][Next]_vars

\* the watch system when the editor also reports the .ltx document
ActivateLtx == ActivateOf(DocsWithLtx)
OnDidChangeTextDocumentLtx == OnDidChangeTextDocumentOf(DocsWithLtx)
OnDidSaveTextDocumentLtx == OnDidSaveTextDocumentOf(DocsWithLtx)

NextLtx ==
    \/ ActivateLtx
    \/ OnDidChangeTextDocumentLtx
    \/ OnDidSaveTextDocumentLtx
    \/ Deactivate
    \/ Notify
    \/ ReactionSettles
    \/ TimerFires
    \/ TimePasses

SpecLtx == Init /\ [][NextLtx]_vars

----------------------------------------------------------------------------
(* Claims about the debounced watcher *)

\* the reactions in flight that are bound to path p, over every watcher ever
\* created for it
RECURSIVE InflightOf(_, _)
InflightOf(p, n) ==
    IF n = 0 THEN 0
    ELSE InflightOf(p, n - 1) + (IF watchers[n].path = p THEN watchers[n].inflight ELSE 0)

\* C1: for one watcher at most one execution of the reaction is in flight; a
\* notification arriving while one is in flight is dropped: it starts nothing,
\* arms nothing and is not replayed, so the executions started stay at one
\* however many notifications arrive during the reaction.
C1_SingleFlight ==
    [][\A id \in DOMAIN watchers :
         LET w == watchers[id]
             w2 == watchers'[id]
         IN  /\ w2.inflight <= 1
             /\ w.inflight = 1 => w2.started = w.started
             /\ (w.inflight = 1 /\ w2.dropped = w.dropped + 1)
                   => w2 = [w EXCEPT !.dropped = @ + 1]]_vars

\* C1 witness: two notifications were dropped during one reaction, which is
\* the only execution started
C1_Witness ==
    \E id \in DOMAIN watchers :
        /\ watchers[id].inflight = 1
        /\ watchers[id].dropped = 2
        /\ watchers[id].started = 1

\* C2: the reactions bound to one path never overlap, also when the anchor
\* watcher of the path is disposed and created again.
C2_NoOverlapPerPath ==
    \A id \in DOMAIN watchers : InflightOf(watchers[id].path, Len(watchers)) <= 1

\* C3: after a reaction has ended, with any outcome, exactly one cooldown is
\* pending while the guard is set; when none is pending any more the guard is
\* clear, no notification is dropped and an accepted notification starts
\* exactly one execution.
C3_StaysArmed ==
    [][\A id \in DOMAIN watchers :
         LET w == watchers[id]
             w2 == watchers'[id]
         IN  /\ (w2.inflight = 0 /\ w2.isProcessing) => Len(w2.timers) = 1
             /\ (w2.inflight = 0 /\ w2.timers = <<>>) => ~w2.isProcessing
             /\ (w.inflight = 0 /\ w.timers = <<>>)
                   => /\ w2.dropped <= w.dropped
                      /\ w2.started \in {w.started, w.started + 1}
                      /\ w2.started = w.started + 1 => w2.inflight = 1]_vars

\* C3 witness: a second execution is running on a watcher whose first
\* reaction failed
C3_Witness ==
    \E id \in DOMAIN watchers :
        /\ watchers[id].started = 2
        /\ watchers[id].inflight = 1
        /\ watchers[id].lastOutcome = "fail"

\* C4: the cooldown runs from the end of the reaction: the time left of the
\* pending timer is cooldown less the time since the reaction ended; a
\* notification dropped changes nothing but the count of drops; and no
\* execution starts less than cooldown after the previous one ended.
C4_CooldownFromEnd ==
    [][\A id \in DOMAIN watchers :
         LET w == watchers[id]
             w2 == watchers'[id]
         IN  /\ \A i \in DOMAIN w2.timers : w2.timers[i] = cooldown - w2.sinceEnd
             /\ w2.started > w.started
                   => (w.sinceEnd = NoTime \/ w.sinceEnd >= cooldown)
             /\ w2.dropped = w.dropped + 1
                   => w2 = [w EXCEPT !.dropped = @ + 1]]_vars

\* C4 witness: a notification was dropped during the cooldown that follows a
\* failed reaction, half of the cooldown after the reaction ended
C4_Witness ==
    \E id \in DOMAIN watchers :
        /\ watchers[id].inflight = 0
        /\ watchers[id].lastOutcome = "fail"
        /\ watchers[id].sinceEnd = Tick
        /\ Len(watchers[id].timers) = 1
        /\ watchers[id].dropped >= 1

\* C14: a step in which setupAnchorSystem handles an observation of a LaTeX
\* document, the comparison script being present, leaves a watcher registered
\* for the document's draft path exactly when the observed text holds the
\* marker; from armed to absent the registered watcher is disposed and its
\* entry removed in that step; from absent to armed exactly one watcher is
\* created, live, bound to the draft path, and registered.
C14_AnchorLifecycle ==
    [][\A doc \in Docs, hasAnchor \in BOOLEAN :
         (/\ doc.languageId = "latex"
          /\ Reg(anchorWatchers', logSyncWatchers', watchers')
                = setupAnchorSystem(CurrentReg, doc, hasAnchor, TRUE)) =>
            LET p == getDrawPdfPath(doc.path)
                n == Len(watchers)
            IN  /\ (p \in DOMAIN anchorWatchers') <=> hasAnchor
                /\ (p \in DOMAIN anchorWatchers /\ ~hasAnchor) =>
                      /\ watchers'[anchorWatchers[p]].disposed
                      /\ Len(watchers') = n
                /\ (p \notin DOMAIN anchorWatchers /\ hasAnchor) =>
                      /\ Len(watchers') = n + 1
                      /\ SubSeq(watchers', 1, n) = watchers
                      /\ watchers'[n + 1] = createSmartPdfWatcher(p, "anchor")
                      /\ anchorWatchers'[p] = n + 1
                /\ (p \in DOMAIN anchorWatchers /\ hasAnchor) =>
                      UNCHANGED <<anchorWatchers, watchers>>
                /\ logSyncWatchers' = logSyncWatchers]_vars

\* C14 witness: armed, then absent, then armed again: the first watcher of
\* the draft path is disposed and the second one is registered for it
C14_Witness ==
    /\ Len(watchers) = 2
    /\ watchers[1].callback = "anchor" /\ watchers[1].disposed
    /\ watchers[2].callback = "anchor" /\ ~watchers[2].disposed
    /\ watchers[1].path = watchers[2].path
    /\ DOMAIN anchorWatchers = {watchers[2].path}
    /\ anchorWatchers[watchers[2].path] = 2

\* C15: at most one live (undisposed) watcher exists for one watched path,
\* after any open, change and save observations.
C15_OneLiveWatcherPerPath ==
    \A i, j \in DOMAIN watchers :
        (i # j /\ ~watchers[i].disposed /\ ~watchers[j].disposed)
            => watchers[i].path # watchers[j].path

\* the watcher ids the two registries hold
Registered(r) == Values(r.anchorWatchers) \cup Values(r.logSyncWatchers)

AllDisposed(r) ==
    \A id \in Registered(r) : id \in DOMAIN r.watchers /\ r.watchers[id].disposed

\* C16: a step of deactivate leaves every watcher of both registries
\* disposed, also those disposed before, changes nothing else of a watcher,
\* and a second call right after it changes nothing.
C16_DeactivateDisposesAll ==
    [][Deactivate =>
         LET r2 == Reg(anchorWatchers', logSyncWatchers', watchers')
         IN  /\ AllDisposed(r2)
             /\ deactivate(r2) = r2
             /\ Len(watchers') = Len(watchers)
             /\ \A id \in DOMAIN watchers :
                   /\ watchers[id].disposed => watchers'[id].disposed
                   /\ [watchers'[id] EXCEPT !.disposed = watchers[id].disposed]
                         = watchers[id]]_vars

\* C16 witness: both registries hold a watcher and every one is disposed,
\* while a reaction started before is still running
C16_Witness ==
    /\ anchorWatchers # <<>>
    /\ logSyncWatchers # <<>>
    /\ AllDisposed(CurrentReg)
    /\ \E id \in Registered(CurrentReg) : watchers[id].inflight = 1

\* C20: for every watcher at most one cooldown timer is pending and none
\* while a reaction is in flight, and the guard is set in every state in
\* which a reaction is in flight or a cooldown timer is pending.
C20_GuardCoversReactionAndCooldown ==
    \A id \in DOMAIN watchers :
        LET w == watchers[id]
        IN  /\ Len(w.timers) <= 1
            /\ w.inflight > 0 => w.timers = <<>>
            /\ (w.inflight > 0 \/ w.timers # <<>>) => w.isProcessing

\* C20 witness: a watcher in its cooldown, guard set, after its second
\* reaction, with a notification dropped during the cooldown
C20_Witness ==
    \E id \in DOMAIN watchers :
        /\ watchers[id].started = 2
        /\ watchers[id].inflight = 0
        /\ Len(watchers[id].timers) = 1
        /\ watchers[id].isProcessing
        /\ watchers[id].dropped = 1

----------------------------------------------------------------------------
(* The stability detector: checkFileStable *)

\* What one fs.promises.stat(filePath) does: it resolves with stat.size and
\* stat.mtimeMs, or it rejects
Sample(size, mtime) == [ok |-> TRUE, size |-> size, mtime |-> mtime]
StatError == [ok |-> FALSE, size |-> 0, mtime |-> 0]
Samples == {Sample(sz, mt) : sz \in 0..MaxSize, mt \in 0..MaxMtime}
StatOutcomes == Samples \cup {StatError}

\* What the file does during a call: the outcome of each of its polls
FileBehaviours(checkCount) == [1..checkCount -> StatOutcomes]

\* let lastSize = 0; let lastMtime = 0; for (let i = 0; i < checkCount; ...
\* polls are the outcomes of the polls made, delays the delay(interval) calls
checkFileStable(filePath, checkCount, interval, file) ==
    [ pc |-> IF 0 < checkCount THEN "poll" ELSE "done",
      filePath |-> filePath,
      checkCount |-> checkCount,
      interval |-> interval,
      file |-> file,
      i |-> 0,
      lastSize |-> 0,
      lastMtime |-> 0,
      polls |-> <<>>,
      delays |-> 0,
      result |-> FALSE ]

\* if (currentSize === lastSize && currentMtime === lastMtime)
sameAsLastMutant(p, stat) == stat.size = p.lastSize
sameAsLast(p, stat) == stat.size = p.lastSize /\ stat.mtime = p.lastMtime

\* i++ and the loop test; return false after the loop
nextPoll(p) ==
    [p EXCEPT !.i = @ + 1,
              !.delays = @ + 1,
              !.pc = IF p.i + 1 < p.checkCount THEN "poll" ELSE "done"]

\* one iteration of the loop whose stat resolved
pollResolved(p, stat) ==
    LET q == [p EXCEPT !.polls = Append(@, stat)]
    IN  IF sameAsLast(p, stat)
        THEN [q EXCEPT !.pc = "done", !.result = TRUE]
        ELSE nextPoll([q EXCEPT !.lastSize = stat.size, !.lastMtime = stat.mtime])

\* one iteration of the loop whose stat rejected: catch { await delay(interval) }
pollRejected(p) ==
    nextPoll([p EXCEPT !.polls = Append(@, StatError)])

StatResolves ==
    /\ probe.pc = "poll"
    /\ probe.file[probe.i + 1].ok
    /\ probe' = pollResolved(probe, probe.file[probe.i + 1])
    /\ UNCHANGED <<active, anchorWatchers, logSyncWatchers, watchers, sync, splice, diff>>

StatRejects ==
    /\ probe.pc = "poll"
    /\ ~probe.file[probe.i + 1].ok
    /\ probe' = pollRejected(probe)
    /\ UNCHANGED <<active, anchorWatchers, logSyncWatchers, watchers, sync, splice, diff>>

\* A call of checkFileStable on any file, with any checkCount
InitStable ==
    /\ active = FALSE
    /\ anchorWatchers = << >>
    /\ logSyncWatchers = << >>
    /\ watchers = << >>
    /\ sync = Idle
    /\ splice = Idle
    /\ diff = Idle
    /\ \E checkCount \in 1..MaxCheckCount :
         \E file \in FileBehaviours(checkCount) :
            probe = checkFileStable(MkPath("a", "log"), checkCount, 200, file)

NextStable ==
    \/ StatResolves
    \/ StatRejects

SpecStable == InitStable /\ [][NextStable]_vars

----------------------------------------------------------------------------
(* Claims about checkFileStable *)

\* the samples of the polls that resolved, in order
Resolved(polls) == SelectSeq(polls, LAMBDA o : o.ok)

\* two consecutive samples equal on size and modification time
TwoConsecutiveEqual(samples) ==
    \E j \in 1..(Len(samples) - 1) : samples[j] = samples[j + 1]

AllResolve(file) == \A j \in DOMAIN file : file[j].ok

\* the file stops changing after sample k: every later sample equals sample k
StopsChangingAfter(file, k) == \A j \in k..Len(file) : file[j] = file[k]

\* every sample differs from the one before
ChangesOnEverySample(file) == \A j \in 1..(Len(file) - 1) : file[j] # file[j + 1]

\* C5: checkFileStable returns true only if two consecutive samples were
\* equal on size and modification time, returns false when checkCount polls
\* are used up without two consecutive equal samples and when every poll
\* fails; a failed poll uses up one of the checkCount polls.
C5_StableOnlyOnTwoEqualSamples ==
    probe.pc = "done" =>
        /\ Len(probe.polls) <= probe.checkCount
        /\ probe.result => TwoConsecutiveEqual(Resolved(probe.polls))
        /\ (Len(probe.polls) = probe.checkCount
              /\ ~TwoConsecutiveEqual(Resolved(probe.polls))) => ~probe.result
        /\ (\A j \in DOMAIN probe.file : ~probe.file[j].ok) => ~probe.result

C5_ExceptZeroSample ==
    (Resolved(probe.polls) # <<>> /\ Resolved(probe.polls)[1] = Sample(0, 0))
        \/ C5_StableOnlyOnTwoEqualSamples

----------------------------------------------------------------------------
(* The replication reaction: handleLogChange and syncPdfFiles *)

\* What fs.promises.copyFile rejects with
CopyErrors == {"EBUSY", "EPERM"}

NotFoundError == "Main PDF file not found"
NotStableError == "PDF file not stable"

\* The events of a reaction, as they are recorded in its trace
NoPath == MkPath("", "")
Event(op, ms, path, result) ==
    [op |-> op, ms |-> ms, path |-> path, result |-> result,
     checkCount |-> 0, polls |-> 0, delays |-> 0]
DelayEvent(ms) == Event("delay", ms, NoPath, "")
ExistsEvent(path, exists) ==
    Event("existsSync", 0, path, IF exists THEN "true" ELSE "false")
StableEvent(p) ==
    [Event("checkFileStable", p.interval, p.filePath,
           IF p.result THEN "true" ELSE "false")
        EXCEPT !.checkCount = p.checkCount, !.polls = Len(p.polls), !.delays = p.delays]
CopyEvent(src, result) == Event("copyFile", 0, src, result)

\* async function handleLogChange(pdfPath, logPath), at its first await:
\* delay(config.logCheckDelay). errors are the showErrorMessage calls, console
\* the console.log calls, thrown what syncPdfFiles threw; primary and draft
\* are the bytes of pdfPath and of its draft artifact.
handleLogChange(pdfPath, logPath) ==
    [ pc |-> "settle",
      pdfPath |-> pdfPath,
      logPath |-> logPath,
      drawPdf |-> getDrawPdfPath(pdfPath),
      i |-> 0,
      trace |-> <<>>,
      errors |-> <<>>,
      console |-> <<>>,
      thrown |-> "none",
      primary |-> "new",
      draft |-> "old" ]

\* catch (error) { showErrorMessage(`PDF sync failed: ${errorMessage}`) }
syncFailed(s, error) ==
    [s EXCEPT !.pc = "done",
              !.thrown = error,
              !.errors = Append(@, <<"PDF sync failed", error>>)]

\* syncPdfFiles returned: console.log(`[SYNC] PDF sync triggered by log ...`)
syncReturned(s) ==
    [s EXCEPT !.pc = "done", !.console = Append(@, "PDF sync triggered by log")]

\* if (!isStable) { console.log(`[SYNC] Ignoring unstable log file ...`); return; }
logUnstable(s) ==
    [s EXCEPT !.pc = "done", !.console = Append(@, "Ignoring unstable log file")]

\* if (!fs.existsSync(pdfPath)) throw
primaryMissingMutant(exists) == FALSE
primaryMissing(exists) == ~exists

\* if (i === config.maxRetries - 1) throw error
lastAttemptMutant(i) == i = maxRetries
lastAttemptNeverMutant(i) == FALSE
lastAttempt(i) == i = maxRetries - 1

\* await delay(500 * (i + 1))
backoffDelay(i) == 500 * (i + 1)

\* for (let i = 0; i < config.maxRetries; i++): the next iteration, or the
\* end of syncPdfFiles when the loop is left
nextAttempt(s) ==
    IF s.i + 1 < maxRetries
    THEN [s EXCEPT !.i = @ + 1, !.pc = "copy"]
    ELSE syncReturned([s EXCEPT !.i = @ + 1])

\* copyFile resolved: console.log(`[SYNC] Sync successful ...`); return
copyResolvedMutant(s) ==
    nextAttempt([s EXCEPT !.trace = Append(@, CopyEvent(s.pdfPath, "ok")),
                          !.draft = s.primary])
copyResolved(s) ==
    syncReturned([s EXCEPT !.trace = Append(@, CopyEvent(s.pdfPath, "ok")),
                           !.draft = s.primary,
                           !.console = Append(@, "Sync successful")])

\* copyFile rejected with error: rethrown on the last attempt, else the
\* backoff delay and the next iteration
copyRejected(s, error) ==
    LET t == [s EXCEPT !.trace = Append(@, CopyEvent(s.pdfPath, error))]
    IN  IF lastAttempt(s.i)
        THEN syncFailed(t, error)
        ELSE nextAttempt([t EXCEPT !.trace = Append(@, DelayEvent(backoffDelay(s.i)))])

\* await delay(config.logCheckDelay) is over: checkFileStable(logPath, 3, 200)
SettleDelayEnds ==
    /\ sync.pc = "settle"
    /\ sync' = [sync EXCEPT !.pc = "logStable",
                            !.trace = Append(@, DelayEvent(logCheckDelay))]
    /\ \E file \in FileBehaviours(3) :
         probe' = checkFileStable(sync.logPath, 3, 200, file)
    /\ UNCHANGED <<active, anchorWatchers, logSyncWatchers, watchers, splice, diff>>

\* checkFileStable(logPath, 3, 200) returned; when stable, syncPdfFiles(pdfPath)
\* runs to its first await: the existence check, then checkFileStable(pdfPath, 3, 500)
LogStabilityReturns ==
    /\ sync.pc = "logStable"
    /\ probe.pc = "done"
    /\ LET s == [sync EXCEPT !.trace = Append(@, StableEvent(probe))]
       IN  IF ~probe.result
           THEN /\ sync' = logUnstable(s)
                /\ probe' = Idle
           ELSE \E exists \in BOOLEAN :
                  LET t == [s EXCEPT !.trace = Append(@, ExistsEvent(s.pdfPath, exists))]
                  IN  IF primaryMissing(exists)
                      THEN /\ sync' = syncFailed(t, NotFoundError)
                           /\ probe' = Idle
                      ELSE /\ sync' = [t EXCEPT !.pc = "pdfStable"]
                           /\ \E file \in FileBehaviours(3) :
                                probe' = checkFileStable(s.pdfPath, 3, 500, file)
    /\ UNCHANGED <<active, anchorWatchers, logSyncWatchers, watchers, splice, diff>>

\* checkFileStable(pdfPath, 3, 500) returned: throw when not stable, else the
\* first copyFile is awaited
PdfStabilityReturns ==
    /\ sync.pc = "pdfStable"
    /\ probe.pc = "done"
    /\ LET s == [sync EXCEPT !.trace = Append(@, StableEvent(probe))]
       IN  sync' = IF ~probe.result
                   THEN syncFailed(s, NotStableError)
                   ELSE [s EXCEPT !.pc = "copy", !.i = 0]
    /\ probe' = Idle
    /\ UNCHANGED <<active, anchorWatchers, logSyncWatchers, watchers, splice, diff>>

CopyResolves ==
    /\ sync.pc = "copy"
    /\ sync' = copyResolved(sync)
    /\ UNCHANGED <<active, anchorWatchers, logSyncWatchers, watchers, probe, splice, diff>>

CopyRejects ==
    /\ sync.pc = "copy"
    /\ \E error \in CopyErrors : sync' = copyRejected(sync, error)
    /\ UNCHANGED <<active, anchorWatchers, logSyncWatchers, watchers, probe, splice, diff>>

\* A log watcher's reaction to one accepted notification
InitSync ==
    /\ active = FALSE
    /\ anchorWatchers = << >>
    /\ logSyncWatchers = << >>
    /\ watchers = << >>
    /\ probe = Idle
    /\ splice = Idle
    /\ diff = Idle
    /\ \E doc \in Docs :
         /\ doc.languageId = "latex"
         /\ LowerExt(doc.path.ext) = "tex"
         /\ sync = handleLogChange(getMainPdfPath(doc.path), getLogFilePath(doc.path))

NextSync ==
    \/ SettleDelayEnds
    \/ StatResolves
    \/ StatRejects
    \/ LogStabilityReturns
    \/ PdfStabilityReturns
    \/ CopyResolves
    \/ CopyRejects

SpecSync == InitSync /\ [][NextSync]_vars

\* The reaction run by its watcher: the log watcher of a saved document has
\* accepted one notification, its handler awaits handleLogChange
InitReaction ==
    /\ active = TRUE
    /\ probe = Idle
    /\ splice = Idle
    /\ diff = Idle
    /\ \E doc \in Docs :
         /\ doc.languageId = "latex"
         /\ LET r == setupPdfSyncSystem(Reg(<<>>, <<>>, <<>>), doc)
            IN  /\ anchorWatchers = r.anchorWatchers
                /\ logSyncWatchers = r.logSyncWatchers
                /\ watchers = [r.watchers EXCEPT ![1] = handlerEnter(@)]
         /\ sync = handleLogChange(getMainPdfPath(doc.path), getLogFilePath(doc.path))

\* handleLogChange has returned (it catches what syncPdfFiles throws): the
\* handler resumes after await callback() and runs its finally block
LogReactionSettles ==
    /\ sync.pc = "done"
    /\ \E id \in DOMAIN watchers :
         /\ watchers[id].callback = "log"
         /\ watchers[id].inflight > 0
         /\ watchers' = [watchers EXCEPT ![id] = handlerLeave(@, "ok")]
    /\ UNCHANGED <<active, anchorWatchers, logSyncWatchers, probe, sync, splice, diff>>

NextReaction ==
    \/ SettleDelayEnds
    \/ StatResolves
    \/ StatRejects
    \/ LogStabilityReturns
    \/ PdfStabilityReturns
    \/ CopyResolves
    \/ CopyRejects
    \/ LogReactionSettles
    \/ TimerFires
    \/ TimePasses

\* every timer fires and every file system call returns or throws: a step
\* that can be taken is taken
SpecReaction == InitReaction /\ [][NextReaction]_vars /\ WF_vars(NextReaction)

----------------------------------------------------------------------------
(* Claims about syncPdfFiles *)

\* the copy attempts of the reaction, in order
Copies(trace) == SelectSeq(trace, LAMBDA e : e.op = "copyFile")

\* the place of the first copy attempt in the trace (0: none)
FirstCopy(trace) ==
    IF Copies(trace) = <<>> THEN 0
    ELSE CHOOSE k \in DOMAIN trace :
            /\ trace[k].op = "copyFile"
            /\ \A j \in 1..(k - 1) : trace[j].op # "copyFile"

EveryCopyFailed(trace) ==
    /\ Copies(trace) # <<>>
    /\ \A j \in DOMAIN Copies(trace) : Copies(trace)[j].result # "ok"

\* C7: when the primary exists and is stable and every copy attempt fails,
\* the copy is attempted exactly maxRetries times and syncPdfFiles throws the
\* error of the last attempt; the wait after the i-th failed attempt,
\* i = 1 .. maxRetries-1, is 500ms * i and nothing follows the last attempt.
C7_RetryExhaustion ==
    (sync.pc = "done" /\ EveryCopyFailed(sync.trace)) =>
        LET k == FirstCopy(sync.trace)
        IN  /\ Len(Copies(sync.trace)) = maxRetries
            /\ sync.thrown = Copies(sync.trace)[maxRetries].result
            /\ Len(sync.trace) = k + 2 * (maxRetries - 1)
            /\ \A i \in 1..maxRetries : sync.trace[k + 2 * (i - 1)].op = "copyFile"
            /\ \A i \in 1..(maxRetries - 1) :
                  sync.trace[k + 2 * i - 1] = DelayEvent(500 * i)

\* C7 witness: three attempts failed, the first with EBUSY and the last
\* with EPERM, which is what was thrown
C7_Witness ==
    /\ sync.pc = "done"
    /\ EveryCopyFailed(sync.trace)
    /\ Len(Copies(sync.trace)) = 3
    /\ Copies(sync.trace)[1].result = "EBUSY"
    /\ Copies(sync.trace)[3].result = "EPERM"
    /\ sync.thrown = "EPERM"

\* C8: when attempt j succeeds after j-1 failed attempts, j <= maxRetries,
\* syncPdfFiles returns: nothing is thrown, no error message is shown, the
\* successful attempt is the last event of the reaction and the draft holds
\* the bytes of the primary.
C8_SuccessAfterFailures ==
    \A j \in DOMAIN Copies(sync.trace) :
        Copies(sync.trace)[j].result = "ok" =>
            /\ sync.pc = "done"
            /\ sync.thrown = "none"
            /\ sync.errors = <<>>
            /\ j = Len(Copies(sync.trace))
            /\ j <= maxRetries
            /\ sync.trace[Len(sync.trace)] = CopyEvent(sync.pdfPath, "ok")
            /\ sync.draft = sync.primary

\* C8 witness: two failures, then a success
C8_Witness ==
    /\ sync.pc = "done"
    /\ Len(Copies(sync.trace)) = 3
    /\ Copies(sync.trace)[1].result # "ok"
    /\ Copies(sync.trace)[2].result # "ok"
    /\ Copies(sync.trace)[3].result = "ok"
    /\ sync.errors = <<>>

\* C9: syncPdfFiles throws the not-found error exactly when existsSync(pdfPath)
\* is false, and then without any stability check of the primary; it throws
\* the not-stable error exactly when the primary exists and
\* checkFileStable(pdfPath, 3, 500) is false; in both cases no copy is
\* attempted and the draft is left as it was.
C9_NotFoundNotStable ==
    LET n == Len(sync.trace)
        pdfChecks == SelectSeq(sync.trace,
                        LAMBDA e : e.op = "checkFileStable" /\ e.path = sync.pdfPath)
        missing == \E k \in DOMAIN sync.trace :
                        sync.trace[k] = ExistsEvent(sync.pdfPath, FALSE)
        unstable == \E k \in DOMAIN pdfChecks : pdfChecks[k].result = "false"
    IN  /\ missing <=> sync.thrown = NotFoundError
        /\ unstable <=> sync.thrown = NotStableError
        /\ missing =>
              /\ sync.pc = "done"
              /\ sync.trace[n] = ExistsEvent(sync.pdfPath, FALSE)
              /\ pdfChecks = <<>>
              /\ Copies(sync.trace) = <<>>
              /\ sync.draft = "old"
        /\ unstable =>
              /\ sync.pc = "done"
              /\ sync.trace[n].op = "checkFileStable"
              /\ sync.trace[n].path = sync.pdfPath
              /\ sync.trace[n].checkCount = 3
              /\ sync.trace[n].ms = 500
              /\ sync.trace[n - 1] = ExistsEvent(sync.pdfPath, TRUE)
              /\ Copies(sync.trace) = <<>>
              /\ sync.draft = "old"

\* C9 witness: the primary exists and is not stable
C9_Witness ==
    /\ sync.pc = "done"
    /\ sync.thrown = NotStableError
    /\ \E k \in DOMAIN sync.trace : sync.trace[k] = ExistsEvent(sync.pdfPath, TRUE)

\* C9, the other case reached: the primary does not exist
C9_WitnessNotFound ==
    /\ sync.pc = "done"
    /\ sync.thrown = NotFoundError

\* a stability check of the reaction, of the log or of the primary, returned
\* false
ReportedUnstable(trace) ==
    \E k \in DOMAIN trace :
        trace[k].op = "checkFileStable" /\ trace[k].result = "false"

\* C13: a reaction of handleLogChange in which a file was reported unstable,
\* the watched log or the primary checked inside syncPdfFiles, shows the user
\* no error message: it ends with no copy attempt and is only logged.
C13_InstabilitySilent ==
    (sync.pc = "done" /\ ReportedUnstable(sync.trace)) =>
        /\ sync.errors = <<>>
        /\ sync.console # <<>>
        /\ Copies(sync.trace) = <<>>

\* the work of the reaction so far is within its budget: one settle delay,
\* one stability check of the log and one of the primary, each of at most 3
\* polls, at most maxRetries copy attempts and maxRetries - 1 backoff waits
WithinBudget ==
    LET t == sync.trace
        checks == SelectSeq(t, LAMBDA e : e.op = "checkFileStable")
        delays == SelectSeq(t, LAMBDA e : e.op = "delay")
        settles == IF t = <<>> THEN 0 ELSE 1
    IN  /\ t # <<>> => t[1] = DelayEvent(logCheckDelay)
        /\ Len(checks) <= 2
        /\ \A k \in DOMAIN checks :
              /\ checks[k].path = IF k = 1 THEN sync.logPath ELSE sync.pdfPath
              /\ checks[k].polls <= 3
              /\ checks[k].delays <= 3
        /\ probe.pc # "idle" => (Len(probe.polls) <= 3 /\ probe.delays <= 3)
        /\ Len(Copies(t)) <= maxRetries
        /\ Len(delays) - settles <= maxRetries - 1
        /\ sync.i <= maxRetries

\* C19: every reaction of handleLogChange ends, having done at most one
\* settle delay, 3 polls of the log, 3 polls of the primary, maxRetries copy
\* attempts and maxRetries - 1 backoff waits; once it has ended the guard of
\* its watcher is eventually clear, with no timer pending.
C19_ReactionTerminates ==
    /\ [](WithinBudget)
    /\ <>(sync.pc = "done")
    /\ (sync.pc = "done") ~>
          (\A id \in DOMAIN watchers :
              /\ ~watchers[id].isProcessing
              /\ watchers[id].inflight = 0
              /\ watchers[id].timers = <<>>)

\* C19 witness: the longest reaction, three failed copies after both checks
\* took three polls, has ended and the guard of its watcher is clear again
C19_Witness ==
    /\ sync.pc = "done"
    /\ Len(Copies(sync.trace)) = maxRetries
    /\ Len(sync.trace) = 4 + 2 * maxRetries - 1
    /\ sync.trace[2].polls = 3
    /\ sync.trace[4].polls = 3
    /\ watchers[1].started = 1
    /\ ~watchers[1].isProcessing
    /\ watchers[1].sinceEnd = cooldown

----------------------------------------------------------------------------
(* The document splicer: updateLatexDocument *)

\* A text is a sequence of characters. "A" stands for the letters ANCHOR, so
\* that the marker '%ANCHOR%' is the three characters below; like the
\* marker, it begins and ends with the same character.
Chars == {"%", "A", "\n"}
Marker == <<"%", "A", "%">>

Texts == UNION {[1..n -> Chars] : n \in 0..MaxDocLen}

\* The artifacts the comparison tool can name, as path segments below the
\* document's directory
ImagePaths == {<<"images", "p1.png">>, <<"images", "p2.png">>}
ImageLists == UNION {[1..n -> ImagePaths] : n \in 1..MaxImages}

Min(a, b) == IF a < b THEN a ELSE b
Max(a, b) == IF a > b THEN a ELSE b

\* text.substring(from, to), offsets from 0
Substring(text, from, to) == SubSeq(text, from + 1, to)

\* the marker is at offset k of text
MarkerAt(text, k) ==
    /\ k + Len(Marker) <= Len(text)
    /\ Substring(text, k, k + Len(Marker)) = Marker

\* while ((match = anchorRegex.exec(text)) !== null): the offsets of the
\* matches of /%ANCHOR%/g from lastIndex on
RECURSIVE regexMatches(_, _)
regexMatches(text, lastIndex) ==
    IF lastIndex + Len(Marker) > Len(text) THEN <<>>
    ELSE IF MarkerAt(text, lastIndex)
         THEN <<lastIndex>> \o regexMatches(text, lastIndex + Len(Marker))
         ELSE regexMatches(text, lastIndex + 1)

\* the offsets of the line breaks of text, in order
RECURSIVE lineBreaks(_, _)
lineBreaks(text, from) ==
    IF from >= Len(text) THEN <<>>
    ELSE IF text[from + 1] = "\n"
         THEN <<from>> \o lineBreaks(text, from + 1)
         ELSE lineBreaks(text, from + 1)

\* the offset at which line n of text starts, and the length of that line
lineStart(text, n) == IF n = 0 THEN 0 ELSE lineBreaks(text, 0)[n] + 1
lineLength(text, n) ==
    LET br == lineBreaks(text, 0)
    IN  (IF n < Len(br) THEN br[n + 1] ELSE Len(text)) - lineStart(text, n)

\* TextDocument.positionAt(offset): the offset is brought into the text
positionAt(text, offset) ==
    LET o == Max(0, Min(offset, Len(text)))
        before == SelectSeq(lineBreaks(text, 0), LAMBDA b : b < o)
    IN  [line |-> Len(before), character |-> o - lineStart(text, Len(before))]

\* TextDocument.offsetAt(position): the position is brought into the text
offsetAt(text, pos) ==
    LET last == Len(lineBreaks(text, 0))
    IN  IF pos.line > last THEN Len(text)
        ELSE lineStart(text, pos.line)
               + Max(0, Min(pos.character, lineLength(text, pos.line)))

\* pos.translate(0, characterDelta)
translate(pos, characterDelta) ==
    [line |-> pos.line, character |-> pos.character + characterDelta]

\* new vscode.Range(pos, pos.translate(0, '%ANCHOR%'.length))
markerRangeMutant(pos) == [start |-> pos, end |-> pos]
markerRange(pos) == [start |-> pos, end |-> translate(pos, Len(Marker))]

\* path.relative(dir, img).replace(/\\/g, '/')
relPath(img) == img[1] \o "/" \o img[2]

\* one figure of the generated block, line by line
figure(img) ==
    << "\\begin{figure}[H]", "\n",
       "  \\includegraphics[width=\\textwidth]{" \o relPath(img) \o "}", "\n",
       "\\end{figure}" >>

\* images.map(...).join('\n\n')
RECURSIVE figures(_)
figures(images) ==
    IF Len(images) = 1 THEN figure(images[1])
    ELSE figure(images[1]) \o <<"\n", "\n">> \o figures(Tail(images))

\* The editor applies the replacements of one edit together, each range
\* taken in the text as it was: from the last range to the first
RECURSIVE applyReplaces(_, _, _)
applyReplaces(text, ranges, newText) ==
    IF ranges = <<>> THEN text
    ELSE LET r == ranges[Len(ranges)]
             from == offsetAt(text, r.start)
             to == Max(from, offsetAt(text, r.end))
             done == Substring(text, 0, from) \o newText
                        \o Substring(text, to, Len(text))
         IN  applyReplaces(done, SubSeq(ranges, 1, Len(ranges) - 1), newText)

\* text.replace(/%ANCHOR%/g, '')
RECURSIVE removeMarkers(_)
removeMarkers(text) ==
    IF text = <<>> THEN <<>>
    ELSE IF MarkerAt(text, 0)
         THEN removeMarkers(Substring(text, Len(Marker), Len(text)))
         ELSE <<Head(text)>> \o removeMarkers(Tail(text))

\* async function updateLatexDocument(texPath, images), when the document is
\* open and shown. text is the document's text and text0 what it was at the
\* call; edits are the edits submitted, pending the replacements of the edit
\* awaited; errors are the showErrorMessage calls.
updateLatexDocument(text, images) ==
    [ pc |-> "scan",
      text |-> text,
      text0 |-> text,
      images |-> images,
      anchorPositions |-> <<>>,
      figures |-> <<>>,
      pending |-> <<>>,
      newText |-> <<>>,
      edits |-> <<>>,
      applied |-> <<>>,
      errors |-> <<>>,
      thrown |-> "none" ]

noAnchorsMutant(anchorPositions) == FALSE

\* anchorPositions.length === 0
noAnchors(anchorPositions) == Len(anchorPositions) = 0

\* the scan, then either the no-anchor error or the batch replacement
\* submitted with editor.edit
scanAndEdit(u) ==
    LET matches == regexMatches(u.text, 0)
        positions == [k \in DOMAIN matches |-> positionAt(u.text, matches[k])]
    IN  IF noAnchors(positions)
        THEN [u EXCEPT !.pc = "done",
                       !.errors = Append(@, "No %ANCHOR% found in the document"),
                       !.thrown = "No %ANCHOR% found"]
        ELSE [u EXCEPT !.pc = "edit",
                       !.anchorPositions = positions,
                       !.figures = figures(u.images),
                       !.pending = [k \in DOMAIN positions |-> markerRange(positions[k])],
                       !.edits = Append(@, [by |-> "editor.edit",
                                            replaces |-> Len(positions)])]

\* editor.edit resolved (applied: whether the editor applied it), then the
\* cleanup: the text without markers, submitted with applyEdit for the range
\* from positionAt(0) to positionAt(newText.length)
cleanupAfterEdit(u, applied) ==
    LET text == IF applied THEN applyReplaces(u.text, u.pending, u.figures) ELSE u.text
        newText == removeMarkers(text)
        fullRange == [start |-> positionAt(text, 0),
                      end |-> positionAt(text, Len(newText))]
    IN  [u EXCEPT !.pc = "cleanup",
                  !.text = text,
                  !.applied = Append(@, applied),
                  !.newText = newText,
                  !.pending = <<fullRange>>,
                  !.edits = Append(@, [by |-> "applyEdit", replaces |-> 1])]

\* applyEdit resolved: updateLatexDocument returns
cleanupApplied(u, applied) ==
    [u EXCEPT !.pc = "done",
              !.text = IF applied THEN applyReplaces(u.text, u.pending, u.newText) ELSE @,
              !.applied = Append(@, applied),
              !.pending = <<>>]

ScanAndEdit ==
    /\ splice.pc = "scan"
    /\ splice' = scanAndEdit(splice)
    /\ UNCHANGED <<active, anchorWatchers, logSyncWatchers, watchers, probe, sync, diff>>

EditResolves ==
    /\ splice.pc = "edit"
    /\ \E applied \in BOOLEAN : splice' = cleanupAfterEdit(splice, applied)
    /\ UNCHANGED <<active, anchorWatchers, logSyncWatchers, watchers, probe, sync, diff>>

CleanupResolves ==
    /\ splice.pc = "cleanup"
    /\ \E applied \in BOOLEAN : splice' = cleanupApplied(splice, applied)
    /\ UNCHANGED <<active, anchorWatchers, logSyncWatchers, watchers, probe, sync, diff>>

\* A call of updateLatexDocument on any document text and artifact list
InitSplice ==
    /\ active = FALSE
    /\ anchorWatchers = << >>
    /\ logSyncWatchers = << >>
    /\ watchers = << >>
    /\ probe = Idle
    /\ sync = Idle
    /\ diff = Idle
    /\ \E text \in Texts, images \in ImageLists :
         splice = updateLatexDocument(text, images)

NextSplice ==
    \/ ScanAndEdit
    \/ EditResolves
    \/ CleanupResolves

SpecSplice == InitSplice /\ [][NextSplice]_vars

----------------------------------------------------------------------------
(* Claims about updateLatexDocument *)

\* text with every marker found by a scan from left to right replaced by block
RECURSIVE Substituted(_, _)
Substituted(text, block) ==
    IF text = <<>> THEN <<>>
    ELSE IF MarkerAt(text, 0)
         THEN block \o Substituted(Substring(text, Len(Marker), Len(text)), block)
         ELSE <<Head(text)>> \o Substituted(Tail(text), block)

\* the number of markers a scan from left to right finds in text
MarkerCount(text) == Len(regexMatches(text, 0))

\* the marker occurs somewhere in text
HasMarker(text) == \E k \in 0..Len(text) : MarkerAt(text, k)

\* the figure entries of a block: its \includegraphics lines, in order
FigureEntries(block) ==
    SelectSeq(block, LAMBDA c : \E img \in ImagePaths : c = figure(img)[3])

\* C10: for a document with K >= 1 markers and M >= 1 artifacts, when the
\* editor has applied the batch edit, the document after updateLatexDocument
\* holds no marker and, at the place of each original marker, the one
\* generated block, which holds the M figure entries in the order of the
\* artifact list; the K replacements were submitted in one edit.
C10_MarkersConsumed ==
    (splice.pc = "done" /\ splice.applied # <<>> /\ splice.applied[1]) =>
        LET K == MarkerCount(splice.text0)
            M == Len(splice.images)
            block == splice.figures
        IN  /\ K >= 1
            /\ ~HasMarker(splice.text)
            /\ splice.text = Substituted(splice.text0, block)
            /\ Len(splice.text) = Len(splice.text0) + K * (Len(block) - Len(Marker))
            /\ Len(FigureEntries(block)) = M
            /\ \A i \in 1..M : FigureEntries(block)[i] = figure(splice.images[i])[3]
            /\ splice.edits[1] = [by |-> "editor.edit", replaces |-> K]
            /\ splice.thrown = "none"

\* C10 witness: two markers on two lines and two artifacts, both replaced
C10_Witness ==
    /\ splice.pc = "done"
    /\ splice.applied = <<TRUE, TRUE>>
    /\ splice.text0 = <<"%", "A", "%", "\n", "%", "A", "%">>
    /\ splice.images = <<<<"images", "p1.png">>, <<"images", "p2.png">>>>
    /\ splice.text = splice.figures \o <<"\n">> \o splice.figures


\* C11: on a document text with no marker, updateLatexDocument ends with the
\* no-anchor error (shown and thrown), submits no edit at all, and the text
\* after the call is the text before it.
C11_NoAnchorRejected ==
    (~HasMarker(splice.text0) /\ splice.pc # "scan") =>
        /\ splice.pc = "done"
        /\ splice.thrown = "No %ANCHOR% found"
        /\ splice.errors = <<"No %ANCHOR% found in the document">>
        /\ splice.edits = <<>>
        /\ splice.applied = <<>>
        /\ splice.text = splice.text0

\* C11 witness: a text of marker fragments but no whole marker was rejected
C11_Witness ==
    /\ splice.pc = "done"
    /\ splice.text0 = <<"%", "A", "\n", "%", "A", "\n", "%">>
    /\ splice.images # <<>>
    /\ splice.thrown = "No %ANCHOR% found"
    /\ splice.text = splice.text0


\* C17: when the cleanup edit has been applied, the document is the text the
\* second pass started from with every marker deleted (newText), and holds no
\* marker, whatever the first edit left in it.
C17_CleanupRemovesEveryMarker ==
    (splice.pc = "done" /\ Len(splice.applied) = 2 /\ splice.applied[2]) =>
        /\ splice.text = splice.newText
        /\ ~HasMarker(splice.text)

----------------------------------------------------------------------------
(* The comparison reaction: handlePdfDifference *)

\* the lines the comparison script prints: artifact paths and one other line
OtherLine == <<"images", "p1.log">>
StdoutLines == ImagePaths \cup {OtherLine}
Stdouts == UNION {[1..n -> StdoutLines] : n \in 0..MaxImages}

\* what exec reports when the script fails: stderr, or error.message when
\* stderr is empty
ExecErrors == {"stderr", "error.message"}

\* line.endsWith('.png')
endsWithPng(line) == line[2] \in {"p1.png", "p2.png"}

\* stdout.trim().split('\n').filter(line => line.endsWith('.png'))
pngLines(stdout) == SelectSeq(stdout, endsWithPng)

noImagesMutant(images) == FALSE

\* images.length > 0 ? resolve(images) : reject('No valid differences detected')
noImages(images) == Len(images) = 0

\* getPythonScriptPath(), then the call of executePythonDiff. errors is what
\* showErrorMessage was given by this function and by getPythonScriptPath,
\* infos what showInformationMessage was given, calls the functions awaited,
\* in order.
handlePdfDifference(texPath, drawPdf, scriptOk) ==
    [ pc |-> IF scriptOk THEN "exec" ELSE "done",
      texPath |-> texPath,
      drawPdf |-> drawPdf,
      mainPdf |-> getMainPdfPath(texPath),
      images |-> <<>>,
      calls |-> IF scriptOk THEN <<"executePythonDiff">> ELSE <<>>,
      errors |-> IF scriptOk THEN <<>> ELSE <<<<"Python script missing", "">>>>,
      infos |-> <<>>,
      caught |-> "none" ]

\* catch (error): showErrorMessage(`Diff generation failed: ${error}`)
diffFailed(d, error) ==
    [d EXCEPT !.pc = "done",
              !.caught = error,
              !.errors = Append(@, <<"Diff generation failed", error>>)]

\* the exec callback without error: the promise resolves with the artifact
\* list or rejects, and on resolve updateLatexDocument is called
execResolved(d, stdout) ==
    LET images == pngLines(stdout)
    IN  IF noImages(images)
        THEN diffFailed(d, "No valid differences detected")
        ELSE [d EXCEPT !.pc = "open",
                       !.images = images,
                       !.calls = Append(@, "updateLatexDocument")]

\* updateLatexDocument returned or threw
spliceReturned(d, u) ==
    IF u.thrown # "none"
    THEN diffFailed(d, u.thrown)
    ELSE [d EXCEPT !.pc = "done",
                   !.calls = Append(@, "showInformationMessage"),
                   !.infos = Append(@, <<"Successfully inserted", Len(d.images)>>)]

ExecResolves ==
    /\ diff.pc = "exec"
    /\ \E stdout \in Stdouts : diff' = execResolved(diff, stdout)
    /\ UNCHANGED <<active, anchorWatchers, logSyncWatchers, watchers, probe, sync, splice>>

ExecRejects ==
    /\ diff.pc = "exec"
    /\ \E error \in ExecErrors : diff' = diffFailed(diff, error)
    /\ UNCHANGED <<active, anchorWatchers, logSyncWatchers, watchers, probe, sync, splice>>

\* openTextDocument and showTextDocument resolved: the document holds text
OpenResolves ==
    /\ diff.pc = "open"
    /\ \E text \in Texts : splice' = updateLatexDocument(text, diff.images)
    /\ diff' = [diff EXCEPT !.pc = "splice"]
    /\ UNCHANGED <<active, anchorWatchers, logSyncWatchers, watchers, probe, sync>>

\* openTextDocument or showTextDocument rejected
OpenRejects ==
    /\ diff.pc = "open"
    /\ diff' = diffFailed(diff, "cannot open file")
    /\ UNCHANGED <<active, anchorWatchers, logSyncWatchers, watchers, probe, sync, splice>>

SpliceReturns ==
    /\ diff.pc = "splice"
    /\ splice.pc = "done"
    /\ diff' = spliceReturned(diff, splice)
    /\ UNCHANGED <<active, anchorWatchers, logSyncWatchers, watchers, probe, sync, splice>>

\* A call of handlePdfDifference for any LaTeX document
InitDiff ==
    /\ active = FALSE
    /\ anchorWatchers = << >>
    /\ logSyncWatchers = << >>
    /\ watchers = << >>
    /\ probe = Idle
    /\ sync = Idle
    /\ splice = Idle
    /\ \E doc \in Docs, scriptOk \in BOOLEAN :
         /\ doc.languageId = "latex"
         /\ diff = handlePdfDifference(doc.path, getDrawPdfPath(doc.path), scriptOk)

NextDiff ==
    \/ ExecResolves
    \/ ExecRejects
    \/ OpenResolves
    \/ OpenRejects
    \/ ScanAndEdit
    \/ EditResolves
    \/ CleanupResolves
    \/ SpliceReturns

SpecDiff == InitDiff /\ [][NextDiff]_vars

----------------------------------------------------------------------------
(* Claims about handlePdfDifference *)

\* every error message the user was shown during the reaction, in order
ErrorsShown ==
    (IF splice.pc = "idle" THEN <<>> ELSE splice.errors) \o diff.errors

\* the reaction has ended without the success notification
ReactionFailed == diff.pc = "done" /\ diff.infos = <<>>

\* C12: every failed reaction shows the user exactly one error message (and
\* the failure is caught inside handlePdfDifference, never thrown to the
\* watcher's handler).
C12_OneMessagePerFailure ==
    ReactionFailed => Len(ErrorsShown) = 1


\* C18: handlePdfDifference calls the comparison, then the splicer, then shows
\* the success notification, in this order. When the comparison fails (the
\* tool fails or prints no artifact) the splicer is not called and no edit is
\* submitted. The success notification is shown only after the comparison has
\* resolved with artifacts and updateLatexDocument has returned without
\* throwing, and then no error message is shown.
C18_DiffThenSpliceThenNotify ==
    /\ diff.calls \in {<<>>,
                       <<"executePythonDiff">>,
                       <<"executePythonDiff", "updateLatexDocument">>,
                       <<"executePythonDiff", "updateLatexDocument",
                         "showInformationMessage">>}
    /\ splice.pc # "idle" =>
          /\ Len(diff.calls) >= 2
          /\ diff.images # <<>>
          /\ splice.images = diff.images
    /\ diff.caught \in ExecErrors \cup {"No valid differences detected"} =>
          /\ diff.pc = "done"
          /\ splice.pc = "idle"
          /\ diff.calls = <<"executePythonDiff">>
          /\ diff.infos = <<>>
    /\ diff.infos # <<>> =>
          /\ diff.pc = "done"
          /\ diff.infos = <<<<"Successfully inserted", Len(diff.images)>>>>
          /\ Len(diff.calls) = 3
          /\ splice.pc = "done"
          /\ splice.thrown = "none"
          /\ Len(splice.edits) = 2
          /\ ErrorsShown = <<>>

\* C18 witness: two artifacts among the lines printed, both markers of the
\* document replaced, and the success notification shown
C18_Witness ==
    /\ diff.pc = "done"
    /\ diff.images = <<<<"images", "p2.png">>, <<"images", "p1.png">>>>
    /\ diff.infos = <<<<"Successfully inserted", 2>>>>
    /\ splice.pc = "done"
    /\ splice.applied = <<TRUE, TRUE>>
    /\ splice.text0 = <<"%", "A", "%", "\n", "%", "A", "%">>

\* C18 witness of the failure: the tool printed no artifact, the splicer was
\* not called
C18_WitnessNoDifferences ==
    /\ diff.pc = "done"
    /\ diff.caught = "No valid differences detected"
    /\ splice.pc = "idle"
    /\ Len(diff.errors) = 1

====
